---- MODULE Spec2Model ----
(***************************************************************************)
(* A model of the NEO close-approach database: the record types of         *)
(* models.py, the linking constructor, the two lookups and the streaming   *)
(* query of neo/database.py, and the filters and the limiter of            *)
(* filters.py.                                                             *)
(*                                                                         *)
(* Conventions.  Python objects are identified by their position in the    *)
(* collection handed to the constructor: an approach's `neo` is 0 for None *)
(* or the 1-based position of the NEO in `neos`; an NEO's `approaches` is  *)
(* a sequence of 1-based positions in `approaches`.  The two dicts hold    *)
(* 1-based positions where the code holds 0-based ones.  Floats are small  *)
(* naturals plus the NaN sentinel, and every comparison goes through the   *)
(* Op* operators, which give NaN its IEEE behaviour.  The fields of every  *)
(* record are written in the order in which TLC keeps them (the order of  *)
(* their first appearance in this module), so that no worker ever has to   *)
(* reorder a record another worker is reading.                             *)
(***************************************************************************)
EXTENDS Integers, Sequences, FiniteSets, TLC

VARIABLES
    neoRows,     \* the rows of the NEO file the NEOs were built from
    neos,        \* the NearEarthObject collection handed to the constructor
    approaches,  \* the CloseApproach collection handed to the constructor
    status,      \* "unbuilt", "ready" (constructor returned), "failed" (it raised)
    db,          \* the NEODatabase the caller holds: its two dicts
    ret,         \* the last call on the database and what came back
    gens,        \* the generator objects returned by query, by handle
    lims         \* the islice objects returned by limit, by the handle of their source

vars == <<neoRows, neos, approaches, status, db, ret, gens, lims>>

----------------------------------------------------------------------------
(* Bounds *)

MaxNeos == 2
MaxApproaches == 3
MaxLimit == 2
MaxSlots == 2

----------------------------------------------------------------------------
(* Python values *)

\* None, as a designation, a name or a lookup argument
NoneVal == "<None>"
\* a lookup argument that is hashable but no string (an int)
WrongType == "<int>"
\* a lookup argument that cannot be hashed (a list): dict[key] raises TypeError
Unhashable == "<list>"
\* None, as the reference value of a filter; a present value v is <<v>>
NoValue == <<>>
\* float('nan')
NaN == -1
\* False and True; a Python bool is an int, and True == 1
PyFalse == 0
PyTrue == 1

BoundedSeq(S, n) == UNION {[1..k -> S] : k \in 0..n}

\* dict.get(key, default) on a keyword dictionary
InfoGet(info, key, default) ==
    IF key \in DOMAIN info THEN info[key] ELSE default

\* float(s) on the numeric strings of the data files
Float(s) ==
    CASE s = "nan" -> NaN
      [] s = "0" -> 0
      [] s = "1" -> 1
      [] s = "2" -> 2
      [] s = "3" -> 3

\* helpers.cd_to_datetime on 'YYYY-Mon-DD hh:mm': a calendar day and the
\* minute of that day
cd_to_datetime(cd) ==
    CASE cd = "2020-Jan-01 00:00" -> [date |-> 1, minute |-> 0]
      [] cd = "2020-Jan-01 12:30" -> [date |-> 1, minute |-> 750]
      [] cd = "2020-Jan-02 00:00" -> [date |-> 2, minute |-> 0]
      [] cd = "2020-Jan-02 23:59" -> [date |-> 2, minute |-> 1439]
      [] cd = "2020-Jan-03 06:00" -> [date |-> 3, minute |-> 360]

----------------------------------------------------------------------------
(* models.py *)

\* the name a record's name field is stored under: '' becomes None
NormalizeNameDropped(name) == name

NormalizeName(name) == IF name = "" THEN NoneVal ELSE name

NearEarthObject(info) ==
    LET name == InfoGet(info, "name", NoneVal)
        diameter == InfoGet(info, "diameter", "nan")
    IN  [approaches  |-> <<>>,
         name        |-> NormalizeName(name),
         diameter    |-> Float(IF diameter = "" THEN "nan" ELSE diameter),
         designation |-> InfoGet(info, "pdes", NoneVal),
         hazardous   |-> IF InfoGet(info, "pha", "<False>") = "Y"
                         THEN PyTrue ELSE PyFalse]

CloseApproach(info) ==
    [_designation |-> InfoGet(info, "des", NoneVal),
     time         |-> cd_to_datetime(info["cd"]),
     distance     |-> Float(InfoGet(info, "dist", "nan")),
     velocity     |-> Float(InfoGet(info, "v_rel", "nan")),
     neo          |-> 0]

----------------------------------------------------------------------------
(* neo/database.py: NEODatabase.__init__ *)

\* d.setdefault(k, v): an entry already there is kept
DictSetKeepFirst(d, k, v) ==
    [x \in (DOMAIN d) \cup {k} |-> IF x \in DOMAIN d THEN d[x] ELSE v]

\* d[k] = v on a dict
DictSet(d, k, v) ==
    [x \in (DOMAIN d) \cup {k} |-> IF x = k THEN v ELSE d[x]]

EmptyDict == [x \in {} |-> 0]

\* {neo.designation: i for i, neo in enumerate(neos)
\*  if neo.designation is not None}, entry i onwards added to d
RECURSIVE NeosByDesFrom(_, _, _)
NeosByDesFrom(ns, i, d) ==
    IF i > Len(ns) THEN d
    ELSE NeosByDesFrom(ns, i + 1,
            IF ns[i].designation # NoneVal
            THEN DictSet(d, ns[i].designation, i) ELSE d)

NeosByDes(ns) == NeosByDesFrom(ns, 1, EmptyDict)

\* {neo.name: i for i, neo in enumerate(neos) if neo.name is not None}
RECURSIVE NeosByNameFrom(_, _, _)
NeosByNameFrom(ns, i, d) ==
    IF i > Len(ns) THEN d
    ELSE NeosByNameFrom(ns, i + 1,
            IF ns[i].name # NoneVal
            THEN DictSet(d, ns[i].name, i) ELSE d)

NeosByName(ns) == NeosByNameFrom(ns, 1, EmptyDict)

\* a join that skips approach i, whose key the index lacks, and goes on
OrphanSkipped(ns, as, i) == [neos |-> ns, approaches |-> as, exc |-> "none"]

\* a join that undoes the links it made before it raises
OrphanRollback(ns, as, i) ==
    [neos       |-> [o \in DOMAIN ns |-> [ns[o] EXCEPT !.approaches = <<>>]],
     approaches |-> [a \in DOMAIN as |-> [as[a] EXCEPT !.neo = 0]],
     exc        |-> "KeyError"]

\* self._neosByDes[approach._designation] raises KeyError and the
\* constructor stops there
Orphan(ns, as, i) == [neos |-> ns, approaches |-> as, exc |-> "KeyError"]

\* the loop body with approaches.insert(0, approach) for append
LinkOnePrepend(ns, as, byDes, i) ==
    LET n == byDes[as[i]._designation]
    IN  [neos       |-> [ns EXCEPT ![n].approaches = <<i>> \o @],
         approaches |-> [as EXCEPT ![i].neo = n],
         exc        |-> "none"]

\* the loop body that appends to the first NEO of the collection
LinkOneFirstNeo(ns, as, byDes, i) ==
    LET n == byDes[as[i]._designation]
    IN  [neos       |-> [ns EXCEPT ![1].approaches = Append(@, i)],
         approaches |-> [as EXCEPT ![i].neo = n],
         exc        |-> "none"]

\* one pass of the linking loop: approach.neo = ...; neo.approaches.append
LinkOne(ns, as, byDes, i) ==
    LET n == byDes[as[i]._designation]
    IN  [neos       |-> [ns EXCEPT ![n].approaches = Append(@, i)],
         approaches |-> [as EXCEPT ![i].neo = n],
         exc        |-> "none"]

\* for approach in self._approaches: ..., from approach i on
RECURSIVE LinkFrom(_, _, _, _)
LinkFrom(ns, as, byDes, i) ==
    IF i > Len(as) THEN [neos |-> ns, approaches |-> as, exc |-> "none"]
    ELSE IF as[i]._designation \notin DOMAIN byDes
         THEN LET r == Orphan(ns, as, i)
              IN  IF r.exc # "none" THEN r
                  ELSE LinkFrom(r.neos, r.approaches, byDes, i + 1)
         ELSE LET r == LinkOne(ns, as, byDes, i)
              IN  LinkFrom(r.neos, r.approaches, byDes, i + 1)

NoDb == [neosByDes |-> EmptyDict, neosByName |-> EmptyDict]

\* NEODatabase(neos, approaches): the indices, then the join.  When the join
\* raises, the caller gets no database and the records stay as the loop
\* left them.
Construct ==
    /\ status = "unbuilt"
    /\ LET byDes == NeosByDes(neos)
           byName == NeosByName(neos)
           r == LinkFrom(neos, approaches, byDes, 1)
       IN  /\ neos' = r.neos
           /\ approaches' = r.approaches
           /\ ret' = [exc |-> r.exc, op |-> "__init__", arg |-> NoneVal,
                      val |-> 0]
           /\ IF r.exc = "none"
              THEN /\ status' = "ready"
                   /\ db' = [neosByDes |-> byDes, neosByName |-> byName]
              ELSE /\ status' = "failed"
                   /\ db' = NoDb
    /\ UNCHANGED <<neoRows, gens, lims>>

----------------------------------------------------------------------------
(* neo/database.py: the lookups *)

\* d[key]: the value, or the exception the subscription raises
DictLookup(d, key) ==
    IF key = Unhashable THEN [exc |-> "TypeError", val |-> 0]
    ELSE IF key \notin DOMAIN d THEN [exc |-> "KeyError", val |-> 0]
    ELSE [exc |-> "none", val |-> d[key]]

\* the except clauses of a lookup, with `except TypeError` left out
HandledNoTypeError == {"KeyError", "IndexError"}

\* except KeyError / except IndexError / except TypeError: return None
Handled == {"KeyError", "IndexError", "TypeError"}

\* try: return self._neos[index[key]] except ...: return None
TryLookup(index, key) ==
    LET r == DictLookup(index, key)
    IN  IF r.exc \in Handled THEN [exc |-> "none", val |-> 0] ELSE r

get_neo_by_designation(designation) == TryLookup(db.neosByDes, designation)

get_neo_by_name(name) == TryLookup(db.neosByName, name)

DesignationArgs == {NoneVal, "d1", "d2", "d3", "", WrongType, Unhashable}

NameArgs == {NoneVal, "", "n1", "n2", WrongType, Unhashable}

GetNeoByDesignation(d) ==
    /\ status = "ready"
    /\ LET r == get_neo_by_designation(d)
       IN  ret' = [exc |-> r.exc, op |-> "get_neo_by_designation",
                   arg |-> d, val |-> r.val]
    /\ UNCHANGED <<neoRows, neos, approaches, status, db, gens, lims>>

\* a lookup that, like a defaultdict, enters a missing name in the index
GetNeoByNameInserting(n) ==
    /\ status = "ready"
    /\ LET r == get_neo_by_name(n)
       IN  ret' = [exc |-> r.exc, op |-> "get_neo_by_name",
                   arg |-> n, val |-> r.val]
    /\ db' = IF n # Unhashable /\ n \notin DOMAIN db.neosByName
             THEN [db EXCEPT !.neosByName = DictSet(@, n, 0)]
             ELSE db
    /\ UNCHANGED <<neoRows, neos, approaches, status, gens, lims>>

GetNeoByName(n) ==
    /\ status = "ready"
    /\ LET r == get_neo_by_name(n)
       IN  ret' = [exc |-> r.exc, op |-> "get_neo_by_name",
                   arg |-> n, val |-> r.val]
    /\ UNCHANGED <<neoRows, neos, approaches, status, db, gens, lims>>

----------------------------------------------------------------------------
(* filters.py: AttributeFilter and its subclasses *)

IsNaN(x) == x = NaN

\* operator.eq, operator.le, operator.ge on floats, dates and bools: every
\* comparison with NaN is false
OpEq(x, y) == ~IsNaN(x) /\ ~IsNaN(y) /\ x = y
\* a comparison under which NaN sorts below every number
OpLeNaNLow(x, y) == IsNaN(x) \/ (~IsNaN(y) /\ x <= y)

OpLe(x, y) == ~IsNaN(x) /\ ~IsNaN(y) /\ x <= y
OpGe(x, y) == ~IsNaN(x) /\ ~IsNaN(y) /\ x >= y

Op(op, x, y) ==
    CASE op = "eq" -> OpEq(x, y)
      [] op = "le" -> OpLe(x, y)
      [] op = "ge" -> OpGe(x, y)

\* the get class method of each subclass, on approach a of store (ns, as)
Get(kind, a, ns) ==
    CASE kind = "Date"      -> a.time.date
      [] kind = "Distance"  -> a.distance
      [] kind = "Velocity"  -> a.velocity
      [] kind = "Diameter"  -> ns[a.neo].diameter
      [] kind = "Hazardous" -> ns[a.neo].hazardous

\* AttributeFilter(op, value)
AttributeFilter(kind, op, value) == [op |-> op, kind |-> kind, value |-> value]

\* AttributeFilter.__call__: self.op(self.get(approach), self.value)
AttributeFilterCall(f, a, ns) == Op(f.op, Get(f.kind, a, ns), f.value[1])

----------------------------------------------------------------------------
(* filters.py: Filter and create_filters *)

SlotNames ==
    <<"date", "start_date", "end_date", "distance_min", "distance_max",
      "velocity_min", "velocity_max", "diameter_min", "diameter_max",
      "hazardous">>

\* create_filters(date=..., ..., hazardous=...): the Filter dataclass, its
\* ten fields in declaration order
create_filters(args) ==
    [type  |-> "Filter",
     slots |-> <<AttributeFilter("Date", "eq", args.date),
                 AttributeFilter("Date", "ge", args.start_date),
                 AttributeFilter("Date", "le", args.end_date),
                 AttributeFilter("Distance", "ge", args.distance_min),
                 AttributeFilter("Distance", "le", args.distance_max),
                 AttributeFilter("Velocity", "ge", args.velocity_min),
                 AttributeFilter("Velocity", "le", args.velocity_max),
                 AttributeFilter("Diameter", "ge", args.diameter_min),
                 AttributeFilter("Diameter", "le", args.diameter_max),
                 AttributeFilter("Hazardous", "eq", args.hazardous)>>]

\* `if filter_.value:` in place of `if filter_.value is not None:`
IsPresentTruthy(value) == value # NoValue /\ value[1] # 0

\* filter_.value is not None
IsPresent(value) == value # NoValue

\* Filter.__call__: result = True; for each field in order, when its value
\* is not None, result = result and filter_(approach)
RECURSIVE FilterCallFrom(_, _, _, _, _)
FilterCallFrom(slots, i, result, a, ns) ==
    IF i > Len(slots) THEN result
    ELSE FilterCallFrom(slots, i + 1,
            IF IsPresent(slots[i].value)
            THEN result /\ AttributeFilterCall(slots[i], a, ns)
            ELSE result,
            a, ns)

FilterCall(filters, a, ns) == FilterCallFrom(filters.slots, 1, TRUE, a, ns)

\* the default argument of query: filters=()
EmptyTuple == [type |-> "tuple", slots |-> <<>>]

\* whether filters(approach) can be called at all: a tuple cannot
Callable(filters) == filters.type = "Filter"

----------------------------------------------------------------------------
(* neo/database.py: query, a generator function *)

GenIds == {"g1", "g2"}

\* no generator under this handle yet
NoGen == [exc |-> "none", filters |-> EmptyTuple, state |-> "absent",
          pos |-> 0, out |-> <<>>]

\* the generator object query returns: nothing of its body has run
NewGen(filters) == [exc |-> "none", filters |-> filters,
                    state |-> "suspended", pos |-> 0, out |-> <<>>]

\* filters(approach) on the default () raises TypeError out of the generator
NotCallable(gen, i) ==
    [gen EXCEPT !.state = "raised", !.exc = "TypeError", !.pos = i - 1]

\* a query loop that starts at the second approach
FirstIndexSkipping(gen) == gen.pos + 2

\* where next() resumes the loop: after the last approach examined
FirstIndex(gen) == gen.pos + 1

\* next(gen): run the loop from approach i until it yields, ends or raises.
\* pos counts the approaches the loop has taken from self._approaches.
RECURSIVE Resume(_, _, _, _)
Resume(gen, i, as, ns) ==
    IF i > Len(as) THEN [gen EXCEPT !.state = "done", !.pos = Len(as)]
    ELSE IF ~Callable(gen.filters) THEN NotCallable(gen, i)
    ELSE IF FilterCall(gen.filters, as[i], ns)
         THEN [gen EXCEPT !.pos = i, !.out = Append(@, i)]
         ELSE Resume(gen, i + 1, as, ns)

GenNext(gen, as, ns) ==
    IF gen.state = "suspended" THEN Resume(gen, FirstIndex(gen), as, ns)
    ELSE gen

\* gen = db.query(filters)
Query(g, filters) ==
    /\ status = "ready"
    /\ gens[g].state = "absent"
    /\ gens' = [gens EXCEPT ![g] = NewGen(filters)]
    /\ UNCHANGED <<neoRows, neos, approaches, status, db, ret, lims>>

\* next(gen), by the caller itself
NextQuery(g) ==
    /\ gens[g].state = "suspended"
    /\ lims[g].state = "absent"
    /\ gens' = [gens EXCEPT ![g] = GenNext(@, approaches, neos)]
    /\ UNCHANGED <<neoRows, neos, approaches, status, db, ret, lims>>

----------------------------------------------------------------------------
(* filters.py: limit *)

NoLim == [arg |-> NoValue, state |-> "absent", out |-> <<>>,
          stop |-> NoValue, cnt |-> 0, base |-> 0]

\* limit without `if n == 0: n = None`
StopOfKeepsZero(n) == n

\* if n == 0: n = None
StopOf(n) == IF n = <<0>> THEN NoValue ELSE n

\* islice(iterator, n).  arg is the n limit was called with and base is how
\* many elements the source had already yielded when it was wrapped: both
\* are kept for the record only
NewLim(gen, n) == [arg |-> n, state |-> "active", out |-> <<>>,
                   stop |-> StopOf(n), cnt |-> 0, base |-> Len(gen.out)]

\* an islice that pulls from its source before it looks at its stop
LimNextPullsFirst(lim, gen, as, ns) ==
    LET g2 == GenNext(gen, as, ns)
    IN  IF lim.stop # NoValue /\ lim.cnt >= lim.stop[1]
        THEN [gen |-> g2, lim |-> [lim EXCEPT !.state = "done"]]
        ELSE IF Len(g2.out) > Len(gen.out)
             THEN [gen |-> g2,
                   lim |-> [lim EXCEPT !.cnt = @ + 1,
                                       !.out = Append(@, g2.out[Len(g2.out)])]]
             ELSE IF g2.state = "raised"
                  THEN [gen |-> g2, lim |-> [lim EXCEPT !.state = "raised"]]
                  ELSE [gen |-> g2, lim |-> [lim EXCEPT !.state = "done"]]

\* next(islice): stop reached, or one element pulled from the source
LimNext(lim, gen, as, ns) ==
    IF lim.stop # NoValue /\ lim.cnt >= lim.stop[1]
    THEN [gen |-> gen, lim |-> [lim EXCEPT !.state = "done"]]
    ELSE LET g2 == GenNext(gen, as, ns)
         IN  IF Len(g2.out) > Len(gen.out)
             THEN [gen |-> g2,
                   lim |-> [lim EXCEPT !.cnt = @ + 1,
                                       !.out = Append(@, g2.out[Len(g2.out)])]]
             ELSE IF g2.state = "raised"
                  THEN [gen |-> g2, lim |-> [lim EXCEPT !.state = "raised"]]
                  ELSE [gen |-> g2, lim |-> [lim EXCEPT !.state = "done"]]

LimitArgs == {NoValue} \cup {<<k>> : k \in 0..MaxLimit}

\* the handles of the generators the caller hands to limit; the other
\* generator is consumed by the caller itself
LimIds == {"g1"}

\* lim = limit(gen, n)
Limit(g, n) ==
    /\ gens[g].state = "suspended"
    /\ lims[g].state = "absent"
    /\ lims' = [lims EXCEPT ![g] = NewLim(gens[g], n)]
    /\ UNCHANGED <<neoRows, neos, approaches, status, db, ret, gens>>

\* next(lim)
NextLimit(g) ==
    /\ lims[g].state = "active"
    /\ LET r == LimNext(lims[g], gens[g], approaches, neos)
       IN  /\ lims' = [lims EXCEPT ![g] = r.lim]
           /\ gens' = [gens EXCEPT ![g] = r.gen]
    /\ UNCHANGED <<neoRows, neos, approaches, status, db, ret>>

----------------------------------------------------------------------------
(* Inputs *)

NoRet == [exc |-> "none", op |-> "none", arg |-> NoneVal, val |-> 0]

\* rows of the NEO file that differ in designation and name: a row may lack
\* either column, and the name may be the empty string
NeoRowsLink ==
    {[name |-> n, pdes |-> p] : p \in {"d1", "d2"}, n \in {"", "n1"}}
        \cup {[pdes |-> p] : p \in {"d1", "d2"}}
        \cup {[name |-> n] : n \in {"", "n1"}}
        \cup {[pha |-> "N"]}

\* rows of the approach file that differ in the designation they refer to
ApproachRowsLink ==
    {[cd |-> "2020-Jan-01 00:00", des |-> d, dist |-> "1", v_rel |-> "1"] :
        d \in {"d1", "d2"}}
        \cup {[cd |-> "2020-Jan-01 00:00", dist |-> "1", v_rel |-> "1"]}

\* extract.load_neos: one NearEarthObject per row, in file order
load_neos(rows) == [i \in DOMAIN rows |-> NearEarthObject(rows[i])]

\* extract.load_approaches: one CloseApproach per row, in file order
load_approaches(rows) == [i \in DOMAIN rows |-> CloseApproach(rows[i])]

InitLink ==
    /\ neoRows \in BoundedSeq(NeoRowsLink, MaxNeos)
    /\ neos = load_neos(neoRows)
    /\ approaches \in {load_approaches(rows) :
                          rows \in BoundedSeq(ApproachRowsLink, MaxApproaches)}
    /\ status = "unbuilt"
    /\ db = NoDb
    /\ ret = NoRet
    /\ gens = [g \in GenIds |-> NoGen]
    /\ lims = [g \in GenIds |-> NoLim]

NextLink ==
    \/ Construct
    \/ \E d \in DesignationArgs : GetNeoByDesignation(d)
    \/ \E n \in NameArgs : GetNeoByName(n)

SpecLink == InitLink /\ [][NextLink]_vars

----------------------------------------------------------------------------
(* Inputs of the filter specifications *)

SlotSet == {SlotNames[i] : i \in DOMAIN SlotNames}

\* the reference values tried in each slot: two dates, two floats (and NaN
\* for the distance bounds), both bools
SlotValues(s) ==
    CASE s = "hazardous" -> {PyFalse, PyTrue}
      [] s \in {"distance_min", "distance_max"} -> {NaN, 1, 2}
      [] OTHER -> {1, 2}

\* create_filters() with no argument given: every slot None
AllNone == [s \in SlotSet |-> NoValue]

\* the keyword arguments that give exactly the slots of S a value
ArgsOn(S) ==
    {[s \in SlotSet |-> IF s \in S THEN <<c[s]>> ELSE NoValue] :
        c \in {c \in [S -> {NaN, 0, 1, 2}] : \A s \in S : c[s] \in SlotValues(s)}}

\* the keyword arguments with at most MaxSlots slots given
FilterArgs ==
    UNION {ArgsOn(S) : S \in {T \in SUBSET SlotSet : Cardinality(T) <= MaxSlots}}

\* one NEO, of any diameter and hazard flag
NeoRowsFilter ==
    {[name |-> "n1", diameter |-> d, pdes |-> "d1", pha |-> h] :
        d \in {"", "1", "2"}, h \in {"Y", "N"}}

\* one approach of that NEO, of any date, distance and velocity
ApproachRowsFilter ==
    {[cd |-> c, des |-> "d1", dist |-> d, v_rel |-> v] :
        c \in {"2020-Jan-01 12:30", "2020-Jan-02 00:00"},
        d \in {"nan", "1", "2"}, v \in {"nan", "1", "2"}}

InitFilter ==
    /\ neoRows \in {<<r>> : r \in NeoRowsFilter}
    /\ neos = load_neos(neoRows)
    /\ approaches \in {load_approaches(<<r>>) : r \in ApproachRowsFilter}
    /\ status = "unbuilt"
    /\ db = NoDb
    /\ ret = NoRet
    /\ gens = [g \in GenIds |-> NoGen]
    /\ lims = [g \in GenIds |-> NoLim]

\* one query per run, consumed by the caller
NextFilter ==
    \/ Construct
    \/ \E args \in FilterArgs : Query("g1", create_filters(args))
    \/ NextQuery("g1")

SpecFilter == InitFilter /\ [][NextFilter]_vars

----------------------------------------------------------------------------
(* Inputs of the query specification *)

\* a hazardous NEO d1 and a harmless NEO d2
NeoRowsQuery ==
    <<[name |-> "n1", diameter |-> "1", pdes |-> "d1", pha |-> "Y"],
      [name |-> "", diameter |-> "", pdes |-> "d2", pha |-> "N"]>>

\* a near approach of d1 and a far approach of d2
ApproachRowsQuery ==
    {[cd |-> "2020-Jan-01 12:30", des |-> "d1", dist |-> "1", v_rel |-> "1"],
     [cd |-> "2020-Jan-02 00:00", des |-> "d2", dist |-> "2", v_rel |-> "2"]}

\* the arguments query is called with: none (the default ()), or the result
\* of create_filters
QueryArgs ==
    {EmptyTuple,
     create_filters(AllNone),
     create_filters([AllNone EXCEPT !["distance_max"] = <<1>>]),
     create_filters([AllNone EXCEPT !["hazardous"] = <<PyFalse>>])}

InitQuery ==
    /\ neoRows = NeoRowsQuery
    /\ neos = load_neos(neoRows)
    /\ approaches \in {load_approaches(rows) :
                          rows \in BoundedSeq(ApproachRowsQuery, MaxApproaches)}
    /\ status = "unbuilt"
    /\ db = NoDb
    /\ ret = NoRet
    /\ gens = [g \in GenIds |-> NoGen]
    /\ lims = [g \in GenIds |-> NoLim]

NextQueryOnly ==
    \/ Construct
    \/ \E g \in GenIds, f \in QueryArgs : Query(g, f)
    \/ \E g \in GenIds : NextQuery(g)
    \/ \E g \in LimIds, n \in LimitArgs : Limit(g, n)
    \/ \E g \in LimIds : NextLimit(g)

SpecQuery == InitQuery /\ [][NextQueryOnly]_vars

----------------------------------------------------------------------------
(* The whole program *)

Init == InitQuery

Next ==
    \/ Construct
    \/ \E d \in DesignationArgs : GetNeoByDesignation(d)
    \/ \E n \in NameArgs : GetNeoByName(n)
    \/ \E g \in GenIds, f \in QueryArgs : Query(g, f)
    \/ \E g \in GenIds : NextQuery(g)
    \/ \E g \in LimIds, n \in LimitArgs : Limit(g, n)
    \/ \E g \in LimIds : NextLimit(g)

Spec == Init /\ [][Next]_vars

----------------------------------------------------------------------------
(* Every operation on one store, with fewer lookup arguments *)

\* a designation of the store, a designation it lacks, an unhashable one
FrameDesignationArgs == {"d1", "d3", Unhashable}

\* a name of the store and a name it lacks
FrameNameArgs == {"n1", "n2"}

NextFrame ==
    \/ Construct
    \/ \E d \in FrameDesignationArgs : GetNeoByDesignation(d)
    \/ \E n \in FrameNameArgs : GetNeoByName(n)
    \/ \E g \in GenIds, f \in QueryArgs : Query(g, f)
    \/ \E g \in GenIds : NextQuery(g)
    \/ \E g \in LimIds, n \in LimitArgs : Limit(g, n)
    \/ \E g \in LimIds : NextLimit(g)

SpecFrame == InitQuery /\ [][NextFrame]_vars

----------------------------------------------------------------------------
(* Properties of the linking constructor (SpecLink) *)

NeoIds == 1..Len(neos)
ApproachIds == 1..Len(approaches)

\* the positions of sequence s that hold x
Occurrences(s, x) == {k \in DOMAIN s : s[k] = x}

\* whether a sequence of positions is in input order
Increasing(s) == \A j, k \in DOMAIN s : j < k => s[j] < s[k]

\* the positions, in input order, of the approaches that satisfy P(_)
RECURSIVE IdsWhere(_, _)
IdsWhere(P(_), n) ==
    IF n = 0 THEN <<>>
    ELSE IF P(n) THEN Append(IdsWhere(P, n - 1), n) ELSE IdsWhere(P, n - 1)

\* C1: after a successful construction every approach in O.approaches refers
\* back to O, and every approach that refers to O is in O.approaches exactly
\* once, in the order of the input approach collection.
C1_LinksAreMutual ==
    status = "ready" =>
        \A o \in NeoIds :
            /\ \A k \in DOMAIN neos[o].approaches :
                   /\ neos[o].approaches[k] \in ApproachIds
                   /\ approaches[neos[o].approaches[k]].neo = o
            /\ \A a \in ApproachIds :
                   approaches[a].neo = o =>
                       Cardinality(Occurrences(neos[o].approaches, a)) = 1
            /\ Increasing(neos[o].approaches)

\* an NEO that received two approaches while another NEO received one
C1_Witness ==
    /\ status = "ready"
    /\ \E o, p \in NeoIds :
           /\ o # p
           /\ Len(neos[o].approaches) >= 2
           /\ Len(neos[p].approaches) >= 1

\* the approaches, in input order, whose foreign key is the designation of o
WithKeyOf(o) ==
    LET P(a) == approaches[a]._designation = neos[o].designation
    IN  IdsWhere(P, Len(approaches))

\* whether a later NEO of the collection has the designation of o
Shadowed(o) ==
    \E p \in NeoIds : p > o /\ neos[p].designation = neos[o].designation

\* C2 as stated: after a successful construction every NEO's approaches are
\* exactly the input approaches whose foreign key equals its designation.
C2_Original ==
    status = "ready" =>
        \A o \in NeoIds : neos[o].approaches = WithKeyOf(o)

\* C2 amended: that holds of every NEO that no later NEO shares its
\* designation with; an NEO shadowed by a later one receives no approach.
C2_ExactlyOwnApproaches ==
    status = "ready" =>
        \A o \in NeoIds :
            neos[o].approaches = IF Shadowed(o) THEN <<>> ELSE WithKeyOf(o)

\* a store of two NEOs with different designations, each with an approach
C2_Witness ==
    /\ status = "ready"
    /\ \E o, p \in NeoIds :
           /\ neos[o].designation # neos[p].designation
           /\ neos[o].approaches # <<>>
           /\ neos[p].approaches # <<>>

\* the NEOs of the store whose designation is d
WithDesignation(d) == {o \in NeoIds : neos[o].designation = d}

Max(S) == CHOOSE x \in S : \A y \in S : y <= x

\* C3 as stated: the lookup returns O for every NEO O with designation d
\* (read as a designation that is a string, not None), returns None for
\* every argument that no NEO has as designation, and never raises.
C3_Original ==
    (status = "ready" /\ ret.op = "get_neo_by_designation") =>
        /\ ret.exc = "none"
        /\ ret.arg # NoneVal =>
               \A o \in WithDesignation(ret.arg) : ret.val = o
        /\ WithDesignation(ret.arg) = {} => ret.val = 0

\* C3 amended: the lookup never raises; for a designation d other than None
\* that some NEO has, it returns the last NEO in input order with
\* designation d (the NEO itself when designations are unique); for every
\* other argument, None included, it returns None.
C3_LookupByDesignation ==
    (status = "ready" /\ ret.op = "get_neo_by_designation") =>
        /\ ret.exc = "none"
        /\ ret.val = IF ret.arg # NoneVal /\ WithDesignation(ret.arg) # {}
                     THEN Max(WithDesignation(ret.arg)) ELSE 0

\* an unhashable argument was looked up in a store that is not empty
C3_Witness ==
    /\ status = "ready"
    /\ ret.op = "get_neo_by_designation"
    /\ ret.arg = Unhashable
    /\ Len(neos) >= 1

\* C4: get_neo_by_name returns None for '' and for None, whatever the rows
\* the NEOs were built from; for a non-empty name some NEO has it returns an
\* NEO of that name.
C4_LookupByName ==
    (status = "ready" /\ ret.op = "get_neo_by_name") =>
        /\ ret.exc = "none"
        /\ ret.arg \in {"", NoneVal} => ret.val = 0
        /\ (ret.arg \notin {"", NoneVal}
              /\ \E o \in NeoIds : neos[o].name = ret.arg) =>
               (ret.val \in NeoIds /\ neos[ret.val].name = ret.arg)

\* '' was looked up in a store that holds an NEO built from a row whose name
\* is '' and an NEO built from a row without a name
C4_Witness ==
    /\ status = "ready"
    /\ ret.op = "get_neo_by_name"
    /\ ret.arg = ""
    /\ \E i, j \in DOMAIN neoRows :
           /\ "name" \in DOMAIN neoRows[i] /\ neoRows[i].name = ""
           /\ "name" \notin DOMAIN neoRows[j]

\* the approaches whose foreign key the designation index lacks
Orphans ==
    {a \in ApproachIds : approaches[a]._designation \notin DOMAIN NeosByDes(neos)}

\* C10: when some approach is orphaned, construction raises KeyError, no
\* database is returned, and nothing can be called on one.
C10_OrphanIsFatal ==
    (status # "unbuilt" /\ Orphans # {}) =>
        /\ status = "failed"
        /\ ret = [exc |-> "KeyError", op |-> "__init__", arg |-> NoneVal,
                  val |-> 0]
        /\ db = NoDb
        /\ \A g \in GenIds : gens[g] = NoGen /\ lims[g] = NoLim
        /\ ~ ENABLED Next

\* construction ran on approaches of which the second is the only orphan
C10_Witness ==
    /\ status = "failed"
    /\ Len(approaches) >= 2
    /\ Orphans = {2}

----------------------------------------------------------------------------
(* Properties of query and limit (SpecQuery) *)

IsPrefix(s, t) == Len(s) <= Len(t) /\ s = SubSeq(t, 1, Len(s))

Min(x, y) == IF x <= y THEN x ELSE y

\* the approaches of the store, in input order, for which filters is true
Matching(filters) ==
    LET P(a) == FilterCall(filters, approaches[a], neos)
    IN  IdsWhere(P, Len(approaches))

\* every approach of the store, in input order
AllApproaches == [a \in ApproachIds |-> a]

\* C5: a generator returned by query(p) yields the approaches for which p is
\* true, each once and in input order: what it has yielded so far is a
\* prefix of them and, once it is exhausted, all of them.  That holds of
\* each generator whatever the other one was given and however far the
\* other one was consumed.
C5_QueryYieldsMatches ==
    \A g \in GenIds :
        (gens[g].state # "absent" /\ Callable(gens[g].filters)) =>
            /\ gens[g].state \in {"suspended", "done"}
            /\ IsPrefix(gens[g].out, Matching(gens[g].filters))
            /\ gens[g].state = "done" =>
                   gens[g].out = Matching(gens[g].filters)

\* two generators with the same filter over a store where it selects some
\* approaches and rejects others: one exhausted, the other part consumed
C5_Witness ==
    /\ gens["g1"].state = "done"
    /\ gens["g2"].state = "suspended"
    /\ gens["g1"].filters = gens["g2"].filters
    /\ Callable(gens["g1"].filters)
    /\ Len(gens["g1"].out) >= 2
    /\ Len(gens["g1"].out) < Len(approaches)
    /\ Len(gens["g2"].out) = 1

\* C6: query called without argument yields every approach of the store, in
\* input order, and does not raise.
C6_DefaultQueryYieldsAll ==
    \A g \in GenIds :
        (gens[g].state # "absent" /\ gens[g].filters = EmptyTuple) =>
            /\ gens[g].state # "raised"
            /\ IsPrefix(gens[g].out, AllApproaches)
            /\ gens[g].state = "done" => gens[g].out = AllApproaches

\* the elements the source of an islice had left when it was wrapped
SourceOf(g) ==
    LET all == Matching(gens[g].filters)
    IN  SubSeq(all, lims[g].base + 1, Len(all))

\* C9: limit(seq, n) with n 0 or None yields every element of seq in order;
\* with n positive it yields the first min(n, len(seq)) elements and stops.
C9_Limit ==
    \A g \in GenIds :
        (lims[g].state # "absent" /\ Callable(gens[g].filters)) =>
            /\ lims[g].state \in {"active", "done"}
            /\ IsPrefix(lims[g].out, SourceOf(g))
            /\ lims[g].state = "done" =>
                   lims[g].out =
                       IF lims[g].arg \in {NoValue, <<0>>}
                       THEN SourceOf(g)
                       ELSE SubSeq(SourceOf(g), 1,
                                   Min(lims[g].arg[1], Len(SourceOf(g))))

\* limit(seq, 2) exhausted over a sequence of three elements, having
\* yielded the first two
C9_Witness ==
    /\ lims["g1"].state = "done"
    /\ lims["g1"].arg = <<2>>
    /\ lims["g1"].base = 0
    /\ Len(SourceOf("g1")) = 3
    /\ lims["g1"].out = SubSeq(SourceOf("g1"), 1, 2)

----------------------------------------------------------------------------
(* Properties of the composite filter (SpecFilter) *)

\* what one slot demands of approach a, written out: date =, the minima >=,
\* the maxima <=, hazardous =; a NaN on either side satisfies no comparison
SlotHolds(name, v, a, ns) ==
    CASE name = "date"         -> a.time.date = v
      [] name = "start_date"   -> a.time.date >= v
      [] name = "end_date"     -> a.time.date <= v
      [] name = "distance_min" -> a.distance # NaN /\ v # NaN /\ a.distance >= v
      [] name = "distance_max" -> a.distance # NaN /\ v # NaN /\ a.distance <= v
      [] name = "velocity_min" -> a.velocity # NaN /\ v # NaN /\ a.velocity >= v
      [] name = "velocity_max" -> a.velocity # NaN /\ v # NaN /\ a.velocity <= v
      [] name = "diameter_min" ->
             ns[a.neo].diameter # NaN /\ v # NaN /\ ns[a.neo].diameter >= v
      [] name = "diameter_max" ->
             ns[a.neo].diameter # NaN /\ v # NaN /\ ns[a.neo].diameter <= v
      [] name = "hazardous"    -> ns[a.neo].hazardous = v

\* the slots of a Filter whose reference value is not None
Present(filters) ==
    {i \in DOMAIN filters.slots : filters.slots[i].value # NoValue}

\* the conjunction of what the present slots demand
AllPresentHold(filters, a, ns) ==
    \A i \in Present(filters) :
        SlotHolds(SlotNames[i], filters.slots[i].value[1], a, ns)

\* the generator has put the filter to the one approach of the store
Evaluated(g) == gens[g].state \in {"suspended", "done"} /\ gens[g].pos = 1

\* C7: the composite filter is the AND of the filters of exactly the slots
\* whose value is not None; with every slot None it accepts every approach;
\* hazardous=False is a constraint, met only by approaches of harmless NEOs.
C7_FilterIsAndOfPresentSlots ==
    Evaluated("g1") =>
        LET f == gens["g1"].filters
            matched == gens["g1"].out = <<1>>
        IN  /\ gens["g1"].out \in {<<>>, <<1>>}
            /\ matched <=> AllPresentHold(f, approaches[1], neos)
            /\ Present(f) = {} => matched
            /\ f.slots[10].value = <<PyFalse>> =>
                   (matched => neos[approaches[1].neo].hazardous = PyFalse)

\* hazardous=False and a distance bound were both given and both are met
C7_Witness ==
    /\ Evaluated("g1")
    /\ gens["g1"].filters.slots[10].value = <<PyFalse>>
    /\ gens["g1"].filters.slots[5].value = <<2>>
    /\ gens["g1"].out = <<1>>

\* C8: with only distance_max = X given, the filter accepts exactly the
\* approaches with distance <= X, X itself included, and none whose distance
\* is NaN; a NaN attribute satisfies none of =, <=, >=.
C8_DistanceMaxAndNaN ==
    /\ Evaluated("g1") =>
        LET f == gens["g1"].filters
            matched == gens["g1"].out = <<1>>
        IN  /\ Present(f) = {5} =>
                   (matched <=>
                       (approaches[1].distance # NaN
                          /\ f.slots[5].value[1] # NaN
                          /\ approaches[1].distance <= f.slots[5].value[1]))
            /\ (\E i \in Present(f) :
                   Get(f.slots[i].kind, approaches[1], neos) = NaN) => ~matched
    /\ \A op \in {"eq", "le", "ge"}, v \in {NaN, 0, 1, 2} : ~Op(op, NaN, v)

\* distance_max = 1 alone accepted an approach at distance 1
C8_Witness ==
    /\ Evaluated("g1")
    /\ Present(gens["g1"].filters) = {5}
    /\ gens["g1"].filters.slots[5].value = <<1>>
    /\ approaches[1].distance = 1
    /\ gens["g1"].out = <<1>>

----------------------------------------------------------------------------
(* Duplicate designations and failed constructions (SpecLink) *)

\* the designations, None apart, that two or more NEOs of the store have
Duplicated ==
    {d \in {neos[o].designation : o \in NeoIds} \ {NoneVal} :
        Cardinality(WithDesignation(d)) >= 2}

\* C13: when several NEOs share designation d, the index maps d to the last
\* of them, the lookup of d returns that one, every approach with foreign
\* key d is linked to it and is in its approaches, and the earlier NEOs with
\* designation d receive no approach.
C13_LastDuplicateWins ==
    status = "ready" =>
        \A d \in Duplicated :
            LET last == Max(WithDesignation(d))
            IN  /\ db.neosByDes[d] = last
                /\ get_neo_by_designation(d).val = last
                /\ (ret.op = "get_neo_by_designation" /\ ret.arg = d) =>
                       ret.val = last
                /\ \A a \in ApproachIds :
                       approaches[a]._designation = d =>
                           /\ approaches[a].neo = last
                           /\ Occurrences(neos[last].approaches, a) # {}
                /\ \A o \in WithDesignation(d) \ {last} :
                       neos[o].approaches = <<>>

\* two NEOs share d1, two approaches refer to d1, and d1 was looked up
C13_Witness ==
    /\ status = "ready"
    /\ "d1" \in Duplicated
    /\ Cardinality({a \in ApproachIds : approaches[a]._designation = "d1"}) >= 2
    /\ ret.op = "get_neo_by_designation"
    /\ ret.arg = "d1"

\* the first approach, in input order, that the join cannot resolve
FirstOrphan == CHOOSE a \in Orphans : \A b \in Orphans : a <= b

\* C14: a construction that fails leaves every approach before the first
\* orphan linked (its neo set, the approach in that NEO's approaches) and
\* the orphan and every approach after it unlinked.
C14_FailureLeavesPartialLinks ==
    status = "failed" =>
        /\ Orphans # {}
        /\ \A a \in ApproachIds :
               IF a < FirstOrphan
               THEN /\ approaches[a].neo =
                           NeosByDes(neos)[approaches[a]._designation]
                    /\ Cardinality(Occurrences(
                           neos[approaches[a].neo].approaches, a)) = 1
               ELSE /\ approaches[a].neo = 0
                    /\ \A o \in NeoIds :
                           Occurrences(neos[o].approaches, a) = {}

\* of three approaches the second is the orphan: the first is linked and the
\* third, whose key the index has, is not
C14_Witness ==
    /\ status = "failed"
    /\ Len(approaches) = 3
    /\ FirstOrphan = 2
    /\ approaches[1].neo # 0
    /\ approaches[3]._designation \in DOMAIN NeosByDes(neos)
    /\ approaches[3].neo = 0

----------------------------------------------------------------------------
(* Laziness of the query and limit pipeline (SpecQuery) *)

\* the generators that exist and whose filters can be called
Live == {g \in GenIds : gens[g].state # "absent" /\ Callable(gens[g].filters)}

\* the last approach generator g has yielded, 0 when it has yielded none
LastYielded(g) ==
    IF gens[g].out = <<>> THEN 0 ELSE gens[g].out[Len(gens[g].out)]

\* how many elements the islice over g has pulled from g
Pulled(g) == Len(gens[g].out) - lims[g].base

\* C11 as stated, its part on the prefix: at any point the predicate has
\* been evaluated on the approaches up to the last one yielded, no further.
C11_Original ==
    \A g \in Live : gens[g].pos = LastYielded(g)

\* the predicate has been evaluated on the prefix 1..pos of the approaches:
\* up to the last one yielded while every request was answered, and on all
\* of them once a request found no further match; an islice with positive n
\* has pulled at most n elements, and having pulled n it leaves its source
\* suspended at the n-th match
PullBased ==
    \A g \in Live :
        /\ gens[g].pos \in 0..Len(approaches)
        /\ gens[g].state = "suspended" => gens[g].pos = LastYielded(g)
        /\ gens[g].state = "done" => gens[g].pos = Len(approaches)
        /\ (lims[g].state # "absent" /\ lims[g].arg \notin {NoValue, <<0>>}) =>
               /\ Pulled(g) <= lims[g].arg[1]
               /\ lims[g].cnt = Pulled(g)
               /\ Pulled(g) = lims[g].arg[1] =>
                      /\ gens[g].state = "suspended"
                      /\ gens[g].pos = lims[g].out[lims[g].arg[1]]

\* a step evaluates the predicate only when it is a next() on the generator
\* or on its islice, yields at most one element, and leaves the store alone;
\* query and limit themselves evaluate nothing
PullStep ==
    /\ UNCHANGED <<neos, approaches, db, status>>
    /\ \A g \in GenIds :
           /\ gens'[g].pos # gens[g].pos =>
                  (NextQuery(g) \/ (g \in LimIds /\ NextLimit(g)))
           /\ Len(gens'[g].out) <= Len(gens[g].out) + 1
           /\ gens[g].state = "absent" => gens'[g].pos = 0

\* C11 amended: the pipeline is pull-based.  The predicate is evaluated only
\* when the consumer requests a further element; it has been evaluated on a
\* prefix of the approaches that ends at the last element yielded, or is
\* the whole collection once a request has found no further match; for
\* positive n limit never pulls more than n elements, so no approach after
\* the n-th match is evaluated; the store is unchanged throughout.
C11_PullBased == [][status = "ready" => (PullStep /\ PullBased')]_vars

\* limit(query(p), 1) is exhausted over three approaches of which p accepts
\* at least two: only the first approach was evaluated
C11_Witness ==
    /\ "g1" \in Live
    /\ lims["g1"].state = "done"
    /\ lims["g1"].arg = <<1>>
    /\ lims["g1"].base = 0
    /\ Len(approaches) = 3
    /\ Len(Matching(gens["g1"].filters)) >= 2
    /\ gens["g1"].pos = 1
    /\ gens["g1"].state = "suspended"

----------------------------------------------------------------------------
(* The store after construction (SpecFrame) *)

\* no approach has a NEO and no NEO has an approach
Unlinked ==
    /\ \A a \in ApproachIds : approaches[a].neo = 0
    /\ \A o \in NeoIds : neos[o].approaches = <<>>

\* C12: after construction succeeds no lookup, query, next() or limit step
\* changes the NEO and approach collections, either index, any NEO's
\* approaches sequence or any approach's neo reference; the records are
\* unlinked until the constructor runs, so every link is set once, there.
C12_StoreIsFrozen ==
    [][/\ status = "ready" =>
              UNCHANGED <<neos, approaches, db, status>>
       /\ status = "unbuilt" => Unlinked]_vars

\* on a linked store: a lookup by name was the last call, the generator
\* handed to limit is exhausted, the other one is consumed in part
C12_Witness ==
    /\ status = "ready"
    /\ ~Unlinked
    /\ ret.op = "get_neo_by_name"
    /\ ret.arg = "n2"
    /\ lims["g1"].state = "done"
    /\ gens["g1"].state = "done"
    /\ Callable(gens["g2"].filters)
    /\ gens["g2"].state = "suspended"
    /\ gens["g2"].pos \in 1..(Len(approaches) - 1)

====
